---- MODULE Spec2Model ----
(***************************************************************************)
(* A model of the two-party expense ledger of dupenodi/expense-calculator. *)
(*                                                                         *)
(* The repository holds two builds of the class ExpenseCalculator:         *)
(*   src/script.js          the ledger is shared through the public CSV    *)
(*                          export of a Google Sheet       (variant "csv") *)
(*   src/unnamed/part_000   the ledger is shared through a Google Apps     *)
(*                          Script web app              (variant "webapp") *)
(* The handlers add / edit / delete / clear and calculateBalances are      *)
(* textually the same in both; the builds differ in loading and in the     *)
(* remote save.                                                            *)
(*                                                                         *)
(* Representation.                                                         *)
(*  - A JS number is a record [t, v]: t = "fin" with v the value in        *)
(*    thousandths, or t = "nan", "inf" (v = 1 for +Infinity, -1 for        *)
(*    -Infinity), or t = "null" (what JSON.stringify makes of NaN and of   *)
(*    the infinities).  Arithmetic on finite values is exact: the rounding *)
(*    of IEEE doubles is not modelled.                                     *)
(*  - A description is a sequence of one-character strings, so that trim,  *)
(*    toLowerCase and includes are computed and not assumed.               *)
(*  - An id is the natural number its decimal string denotes; 0 stands for *)
(*    the empty string.  A timestamp is the instant, in clock units, its   *)
(*    ISO-8601 string denotes; 0 stands for the empty string.              *)
(***************************************************************************)
EXTENDS Integers, Sequences, FiniteSets, TLC

\* ------------------------------------------------------------------ bounds
MaxLen == 2        \* records in the in-memory ledger
MaxClock == 2      \* last clock instant (Date.now() in model units)
MaxSheet == 1      \* rows in the remote sheet
MaxPending == 1    \* remote loads in flight at once

\* ------------------------------------------------------------ JS numbers
Fin(n) == [t |-> "fin", v |-> n]
NaN == [t |-> "nan", v |-> 0]
Infinity == [t |-> "inf", v |-> 1]
NegInfinity == [t |-> "inf", v |-> -1]
JsonNull == [t |-> "null", v |-> 0]

IsFin(x) == x.t = "fin"

\* !x for a number (or null): true for 0, NaN and null
Falsy(x) == x.t = "nan" \/ x.t = "null" \/ (x.t = "fin" /\ x.v = 0)

\* x || d
OrElse(x, d) == IF Falsy(x) THEN d ELSE x

\* isNaN(x)
isNaN(x) == x.t = "nan"

\* x <= 0 for a number; every comparison with NaN is false
LeqZero(x) ==
  CASE x.t = "fin" -> x.v <= 0
    [] x.t = "inf" -> x.v < 0
    [] x.t = "null" -> TRUE
    [] OTHER -> FALSE

\* parseFloat on the texts the model feeds it
parseFloat(s) ==
  CASE s = "10" -> Fin(10000)
    [] s = "100" -> Fin(100000)
    [] s = "0" -> Fin(0)
    [] s = "-5" -> Fin(-5000)
    [] s = "Infinity" -> Infinity
    [] OTHER -> NaN          \* "", "abc"

\* parseInt on the texts the model feeds it
parseInt(s) ==
  CASE s = "0" -> Fin(0)
    [] s = "20" -> Fin(20)
    [] s = "30" -> Fin(30)
    [] s = "40" -> Fin(40)
    [] s = "50" -> Fin(50)
    [] s = "60" -> Fin(60)
    [] s = "70" -> Fin(70)
    [] s = "100" -> Fin(100)
    [] OTHER -> NaN          \* "", "abc"

\* String(x) for the numbers the ledger can hold (URLSearchParams, CSV row)
NumToString(x) ==
  CASE x = Fin(10000) -> "10"
    [] x = Fin(100000) -> "100"
    [] x = Fin(0) -> "0"
    [] x = Fin(-5000) -> "-5"
    [] x = Infinity -> "Infinity"
    [] x = NegInfinity -> "-Infinity"
    [] x.t = "null" -> "null"
    [] OTHER -> "NaN"

\* String(n) for an integer percentage
IntToString(n) ==
  CASE n = 0 -> "0"
    [] n = 20 -> "20"
    [] n = 30 -> "30"
    [] n = 40 -> "40"
    [] n = 50 -> "50"
    [] n = 60 -> "60"
    [] n = 70 -> "70"
    [] n = 100 -> "100"
    [] OTHER -> "abc"

\* ---------------------------------------------------------------- strings
Str_blank == <<" ">>
Str_Rent == <<"R", "e", "n", "t">>
Str_Uber == <<" ", "U", "b", "e", "r">>
Str_Tea == <<"t", "e", "a">>

IsSpace(c) == c = " "

RECURSIVE TrimLeft(_)
TrimLeft(s) == IF s # <<>> /\ IsSpace(Head(s)) THEN TrimLeft(Tail(s)) ELSE s

RECURSIVE TrimRight(_)
TrimRight(s) ==
  IF s # <<>> /\ IsSpace(s[Len(s)]) THEN TrimRight(SubSeq(s, 1, Len(s) - 1)) ELSE s

\* String.prototype.trim
trim(s) == TrimRight(TrimLeft(s))

LowerChar(c) ==
  CASE c = "A" -> "a"
    [] c = "B" -> "b"
    [] c = "C" -> "c"
    [] c = "D" -> "d"
    [] c = "E" -> "e"
    [] c = "F" -> "f"
    [] c = "G" -> "g"
    [] c = "H" -> "h"
    [] c = "I" -> "i"
    [] c = "J" -> "j"
    [] c = "K" -> "k"
    [] c = "L" -> "l"
    [] c = "M" -> "m"
    [] c = "N" -> "n"
    [] c = "O" -> "o"
    [] c = "P" -> "p"
    [] c = "Q" -> "q"
    [] c = "R" -> "r"
    [] c = "S" -> "s"
    [] c = "T" -> "t"
    [] c = "U" -> "u"
    [] c = "V" -> "v"
    [] c = "W" -> "w"
    [] c = "X" -> "x"
    [] c = "Y" -> "y"
    [] c = "Z" -> "z"
    [] OTHER -> c

\* String.prototype.toLowerCase
toLowerCase(s) == [i \in DOMAIN s |-> LowerChar(s[i])]

\* String.prototype.includes
includes(s, kw) ==
  \E i \in 0..(Len(s) - Len(kw)) : SubSeq(s, i + 1, i + Len(kw)) = kw

\* the same chain with the test for water ahead of the test for wifi
getCategoryFromDescription_WaterFirst(description) ==
  LET desc == toLowerCase(description) IN
  IF includes(desc, <<"r", "e", "n", "t">>) THEN "rent"
  ELSE IF includes(desc, <<"e", "l", "e", "c", "t", "r", "i", "c">>)
          \/ includes(desc, <<"p", "o", "w", "e", "r">>) THEN "electricity"
  ELSE IF includes(desc, <<"w", "a", "t", "e", "r">>) THEN "water"
  ELSE IF includes(desc, <<"w", "i", "f", "i">>)
          \/ includes(desc, <<"i", "n", "t", "e", "r", "n", "e", "t">>) THEN "wifi"
  ELSE IF includes(desc, <<"c", "o", "o", "k">>)
          \/ includes(desc, <<"m", "a", "i", "d">>) THEN "cook"
  ELSE IF includes(desc, <<"g", "r", "o", "c", "e", "r">>)
          \/ includes(desc, <<"f", "o", "o", "d">>)
          \/ includes(desc, <<"m", "e", "a", "l">>) THEN "groceries"
  ELSE IF includes(desc, <<"t", "r", "a", "n", "s", "p", "o", "r", "t">>)
          \/ includes(desc, <<"u", "b", "e", "r">>)
          \/ includes(desc, <<"a", "u", "t", "o">>) THEN "transport"
  ELSE IF includes(desc, <<"m", "e", "d", "i", "c", "a", "l">>)
          \/ includes(desc, <<"d", "o", "c", "t", "o", "r">>)
          \/ includes(desc, <<"m", "e", "d", "i", "c", "i", "n", "e">>) THEN "medical"
  ELSE "other"

\* getCategoryFromDescription
getCategoryFromDescription(description) ==
  LET desc == toLowerCase(description) IN
  IF includes(desc, <<"r", "e", "n", "t">>) THEN "rent"
  ELSE IF includes(desc, <<"e", "l", "e", "c", "t", "r", "i", "c">>)
          \/ includes(desc, <<"p", "o", "w", "e", "r">>) THEN "electricity"
  ELSE IF includes(desc, <<"w", "i", "f", "i">>)
          \/ includes(desc, <<"i", "n", "t", "e", "r", "n", "e", "t">>) THEN "wifi"
  ELSE IF includes(desc, <<"w", "a", "t", "e", "r">>) THEN "water"
  ELSE IF includes(desc, <<"c", "o", "o", "k">>)
          \/ includes(desc, <<"m", "a", "i", "d">>) THEN "cook"
  ELSE IF includes(desc, <<"g", "r", "o", "c", "e", "r">>)
          \/ includes(desc, <<"f", "o", "o", "d">>)
          \/ includes(desc, <<"m", "e", "a", "l">>) THEN "groceries"
  ELSE IF includes(desc, <<"t", "r", "a", "n", "s", "p", "o", "r", "t">>)
          \/ includes(desc, <<"u", "b", "e", "r">>)
          \/ includes(desc, <<"a", "u", "t", "o">>) THEN "transport"
  ELSE IF includes(desc, <<"m", "e", "d", "i", "c", "a", "l">>)
          \/ includes(desc, <<"d", "o", "c", "t", "o", "r">>)
          \/ includes(desc, <<"m", "e", "d", "i", "c", "i", "n", "e">>) THEN "medical"
  ELSE "other"

\* ------------------------------------------------------- number arithmetic
\* x * k for an integer k (null coerces to 0, Infinity * 0 is NaN)
Mul(x, k) ==
  CASE x.t = "fin" -> Fin(x.v * k)
    [] x.t = "null" -> Fin(0)
    [] x.t = "inf" -> IF k = 0 THEN NaN
                      ELSE IF k > 0 THEN x ELSE [t |-> "inf", v |-> 0 - x.v]
    [] OTHER -> NaN

\* x + y (Infinity + -Infinity is NaN)
Plus(x, y) ==
  LET a == IF x.t = "null" THEN Fin(0) ELSE x
      b == IF y.t = "null" THEN Fin(0) ELSE y
  IN CASE a.t = "nan" \/ b.t = "nan" -> NaN
       [] a.t = "fin" /\ b.t = "fin" -> Fin(a.v + b.v)
       [] a.t = "inf" /\ b.t = "inf" -> IF a.v = b.v THEN a ELSE NaN
       [] a.t = "inf" -> a
       [] OTHER -> b

\* x - y
Minus(x, y) == Plus(x, Mul(y, -1))

\* ------------------------------------------------------------- the ledger
Parties == {"sharath", "thejas"}

Presets == {"60-40", "40-60", "70-30", "30-70"}

\* JSON.stringify then JSON.parse of the ledger: NaN and the infinities
\* are written as null, everything else comes back as it was
JSONroundtrip(exps) ==
  [i \in DOMAIN exps |->
     [exps[i] EXCEPT !.amount = IF IsFin(@) THEN @ ELSE JsonNull]]

\* calculateBalances; the results are in units of 1/100 of a thousandth, so
\* that (amount * percent) / 100 is exact
\* the shares summed with every expense split in half
RECURSIVE SumSplits_Half(_, _)
SumSplits_Half(exps, who) ==
  IF exps = <<>> THEN Fin(0)
  ELSE Plus(Mul(Head(exps).amount, 50), SumSplits_Half(Tail(exps), who))

RECURSIVE SumSplits(_, _)
SumSplits(exps, who) ==
  IF exps = <<>> THEN Fin(0)
  ELSE LET e == Head(exps)
           pct == IF who = "sharath" THEN e.sharathPercent ELSE e.thejasPercent
           percent == IF pct = 0 THEN 50 ELSE pct
       IN Plus(Mul(e.amount, percent), SumSplits(Tail(exps), who))

RECURSIVE SumPaid(_, _)
SumPaid(exps, who) ==
  IF exps = <<>> THEN Fin(0)
  ELSE LET e == Head(exps)
           mine == IF who = "sharath" THEN e.paidBy = "sharath"
                                      ELSE e.paidBy # "sharath"
       IN Plus(IF mine THEN Mul(e.amount, 100) ELSE Fin(0),
               SumPaid(Tail(exps), who))

calculateBalances(exps) ==
  LET sharathTotal == SumSplits(exps, "sharath")
      thejasTotal == SumSplits(exps, "thejas")
      sharathPaid == SumPaid(exps, "sharath")
      thejasPaid == SumPaid(exps, "thejas")
  IN [sharath |-> Minus(sharathPaid, sharathTotal),
      thejas |-> Minus(thejasPaid, thejasTotal),
      sharathPaid |-> sharathPaid,
      thejasPaid |-> thejasPaid,
      totalExpenses |-> Plus(sharathTotal, thejasTotal),
      sharathTotal |-> sharathTotal,
      thejasTotal |-> thejasTotal]

\* ---------------------------------------------------------------- state
VARIABLES
  variant,    \* "csv" (src/script.js) or "webapp" (src/unnamed/part_000)
  expenses,   \* this.expenses
  stored,     \* localStorage item 'expenses': [has, val]
  sheet,      \* the rows of the remote Google Sheet, oldest first
  linked,     \* this.sheetId / this.webAppUrl is set
  isOnline,   \* this.isOnline
  pending,    \* the loadFromGoogleSheets calls whose fetch is in flight
  clock,      \* Date.now()
  balances,   \* the balances last put on the page by updateDisplay
  last,       \* the command (add, edit, delete, clear) that ran last on this
              \* page and what it told the user
  searchTerm  \* this.searchTerm

vars == <<variant, expenses, stored, sheet, linked, isOnline, pending, clock,
          balances, last, searchTerm>>

Outcome(op, res) == [op |-> op, res |-> res]

\* saveToLocalStorage
saveToLocalStorage(exps) == [has |-> TRUE, val |-> JSONroundtrip(exps)]

\* loadFromLocalStorage: stored ? JSON.parse(stored) : []
loadFromLocalStorage == IF stored.has THEN stored.val ELSE <<>>

\* ------------------------------------------------------------ add expense
\* what the form holds when it is submitted
Form(description, amount, paidBy, datePaid, splitType, sp, tp) ==
  [description |-> description, amount |-> amount, paidBy |-> paidBy,
   datePaid |-> datePaid, splitType |-> splitType,
   sharathPercent |-> sp, thejasPercent |-> tp]

\* ResolveSplit with the presets read as sharath-thejas whoever paid
ResolveSplit_PartyRelative(splitType, paidBy, sp, tp) ==
  CASE splitType = "60-40" -> [ok |-> TRUE, s |-> 60, t |-> 40]
    [] splitType = "40-60" -> [ok |-> TRUE, s |-> 40, t |-> 60]
    [] splitType = "70-30" -> [ok |-> TRUE, s |-> 70, t |-> 30]
    [] splitType = "30-70" -> [ok |-> TRUE, s |-> 30, t |-> 70]
    [] splitType = "custom" ->
         LET s == OrElse(parseInt(sp), Fin(50)).v
             t == OrElse(parseInt(tp), Fin(50)).v
         IN [ok |-> (s + t = 100), s |-> s, t |-> t]
    [] OTHER -> [ok |-> TRUE, s |-> 50, t |-> 50]

\* the if / else-if chain on splitType: the percentages, and whether the
\* custom check let them pass
ResolveSplit(splitType, paidBy, sp, tp) ==
  CASE splitType = "60-40" ->
         IF paidBy = "sharath" THEN [ok |-> TRUE, s |-> 60, t |-> 40]
                               ELSE [ok |-> TRUE, s |-> 40, t |-> 60]
    [] splitType = "40-60" ->
         IF paidBy = "sharath" THEN [ok |-> TRUE, s |-> 40, t |-> 60]
                               ELSE [ok |-> TRUE, s |-> 60, t |-> 40]
    [] splitType = "70-30" ->
         IF paidBy = "sharath" THEN [ok |-> TRUE, s |-> 70, t |-> 30]
                               ELSE [ok |-> TRUE, s |-> 30, t |-> 70]
    [] splitType = "30-70" ->
         IF paidBy = "sharath" THEN [ok |-> TRUE, s |-> 30, t |-> 70]
                               ELSE [ok |-> TRUE, s |-> 70, t |-> 30]
    [] splitType = "custom" ->
         LET s == OrElse(parseInt(sp), Fin(50)).v
             t == OrElse(parseInt(tp), Fin(50)).v
         IN [ok |-> (s + t = 100), s |-> s, t |-> t]
    [] OTHER -> [ok |-> TRUE, s |-> 50, t |-> 50]

\* !description || !amount || !paidBy || !datePaid
MissingField(description, amount, paidBy, datePaid) ==
  description = <<>> \/ Falsy(amount) \/ paidBy = "" \/ datePaid = ""

\* the record handleAddExpense builds
NewExpense(f, now) ==
  LET description == trim(f.description)
      split == ResolveSplit(f.splitType, f.paidBy, f.sharathPercent,
                            f.thejasPercent)
  IN [id |-> now,
      description |-> description,
      amount |-> parseFloat(f.amount),
      paidBy |-> f.paidBy,
      date |-> f.datePaid,
      splitType |-> f.splitType,
      sharathPercent |-> split.s,
      thejasPercent |-> split.t,
      category |-> getCategoryFromDescription(description),
      timestamp |-> now]

\* the row saveToGoogleSheets sends to the web app (URL parameters are text)
ExpenseToRow(e) ==
  [id |-> e.id, description |-> e.description,
   amount |-> NumToString(e.amount), paidBy |-> e.paidBy, date |-> e.date,
   splitType |-> e.splitType,
   sharathPercent |-> IntToString(e.sharathPercent),
   thejasPercent |-> IntToString(e.thejasPercent),
   category |-> e.category, timestamp |-> e.timestamp]

\* push in the place of unshift
Unshift_Push(exps, expense) == Append(exps, expense)

\* this.expenses.unshift(expense)
Unshift(exps, expense) == <<expense>> \o exps

\* what saveToGoogleSheets can return: false without a URL or offline (and
\* always in the CSV build, which only shows instructions); otherwise the
\* web app appends the row and answers success, or the request fails
RemoteSaveOutcomes ==
  IF variant = "webapp" /\ linked /\ isOnline /\ Len(sheet) < MaxSheet
  THEN {TRUE, FALSE} ELSE {FALSE}

\* handleAddExpense that keeps the expense only once the remote save, when
\* one is attempted, has succeeded
handleAddExpense_RemoteFirst(f) ==
  LET split == ResolveSplit(f.splitType, f.paidBy, f.sharathPercent,
                            f.thejasPercent)
      expense == NewExpense(f, clock)
  IN
  IF ~split.ok THEN
       /\ last' = Outcome("add", "alert_percent")
       /\ UNCHANGED <<searchTerm, variant, expenses, stored, sheet, linked, isOnline,
                      pending, clock, balances>>
  ELSE IF MissingField(trim(f.description), parseFloat(f.amount), f.paidBy,
                       f.datePaid) THEN
       /\ last' = Outcome("add", "alert_fields")
       /\ UNCHANGED <<searchTerm, variant, expenses, stored, sheet, linked, isOnline,
                      pending, clock, balances>>
  ELSE
       /\ Len(expenses) < MaxLen
       /\ \E saved \in RemoteSaveOutcomes :
            LET tried == variant = "webapp" /\ linked /\ isOnline
                kept == IF tried /\ ~saved THEN expenses
                        ELSE Unshift(expenses, expense)
            IN /\ expenses' = kept
               /\ stored' = IF tried /\ ~saved THEN stored
                             ELSE saveToLocalStorage(kept)
               /\ balances' = calculateBalances(kept)
               /\ sheet' = IF saved THEN Append(sheet, ExpenseToRow(expense))
                                    ELSE sheet
               /\ last' = Outcome("add",
                            IF ~tried THEN "added"
                            ELSE IF saved THEN "added_synced"
                            ELSE "added_sync_failed")
       /\ UNCHANGED <<searchTerm, variant, linked, isOnline, pending, clock>>

\* handleAddExpense, the form holding f.  In the web-app build the remote
\* save is attempted when a URL is set and the app is online; it may fail.
\* The await of the save is folded into the step: what follows it (the
\* notification, updateDisplay, the form reset) assigns nothing to the ledger.
handleAddExpense(f) ==
  LET split == ResolveSplit(f.splitType, f.paidBy, f.sharathPercent,
                            f.thejasPercent)
      expense == NewExpense(f, clock)
  IN
  IF ~split.ok THEN
       /\ last' = Outcome("add", "alert_percent")
       /\ UNCHANGED <<searchTerm, variant, expenses, stored, sheet, linked, isOnline,
                      pending, clock, balances>>
  ELSE IF MissingField(trim(f.description), parseFloat(f.amount), f.paidBy,
                       f.datePaid) THEN
       /\ last' = Outcome("add", "alert_fields")
       /\ UNCHANGED <<searchTerm, variant, expenses, stored, sheet, linked, isOnline,
                      pending, clock, balances>>
  ELSE
       /\ Len(expenses) < MaxLen
       /\ expenses' = Unshift(expenses, expense)
       /\ stored' = saveToLocalStorage(expenses')
       /\ balances' = calculateBalances(expenses')
       /\ \E saved \in RemoteSaveOutcomes :
            /\ sheet' = IF saved THEN Append(sheet, ExpenseToRow(expense))
                                 ELSE sheet
            /\ last' = Outcome("add",
                         IF ~(variant = "webapp" /\ linked /\ isOnline)
                         THEN "added"
                         ELSE IF saved THEN "added_synced"
                         ELSE "added_sync_failed")
       /\ UNCHANGED <<searchTerm, variant, linked, isOnline, pending, clock>>

\* ----------------------------------------------------------- edit expense
\* what prompt() returns when the user cancels it (null)
CancelText == <<"<cancel>">>
Cancel == "<cancel>"

\* this.expenses.find(exp => exp.id === id): the position of the first
\* record with the id, 0 when there is none
FindIndex(exps, id) ==
  IF \E i \in DOMAIN exps : exps[i].id = id
  THEN CHOOSE i \in DOMAIN exps :
         /\ exps[i].id = id
         /\ \A j \in DOMAIN exps : exps[j].id = id => i <= j
  ELSE 0

\* the update that also puts the split of the record back to equal
UpdateExpense_ResetSplit(e, newDescription, parsedAmount, newPaidBy) ==
  [e EXCEPT !.description = trim(newDescription),
            !.amount = parsedAmount,
            !.paidBy = newPaidBy,
            !.category = getCategoryFromDescription(newDescription),
            !.splitType = "equal",
            !.sharathPercent = 50,
            !.thejasPercent = 50]

\* the update that leaves the category as it was
UpdateExpense_KeepCategory(e, newDescription, parsedAmount, newPaidBy) ==
  [e EXCEPT !.description = trim(newDescription),
            !.amount = parsedAmount,
            !.paidBy = newPaidBy]

\* the four assignments that update the record
UpdateExpense(e, newDescription, parsedAmount, newPaidBy) ==
  [e EXCEPT !.description = trim(newDescription),
            !.amount = parsedAmount,
            !.paidBy = newPaidBy,
            !.category = getCategoryFromDescription(newDescription)]

\* parsedAmount passes the check of editExpense
ValidEditAmount(parsedAmount) == ~(isNaN(parsedAmount) \/ LeqZero(parsedAmount))

\* newPaidBy passes the check of editExpense
ValidEditPaidBy(newPaidBy) == newPaidBy = "sharath" \/ newPaidBy = "thejas"

\* editExpense with each field assigned as soon as its prompt is answered
editExpense_Partial(id, newDescription, newAmount, newPaidBy) ==
  LET i == FindIndex(expenses, id)
      parsedAmount == parseFloat(newAmount)
      described ==
        [expenses EXCEPT ![i].description = trim(newDescription),
                         ![i].category = getCategoryFromDescription(newDescription)]
      stop(res, exps) ==
        /\ last' = Outcome("edit", res)
        /\ expenses' = exps
        /\ UNCHANGED <<searchTerm, variant, stored, sheet, linked, isOnline, pending,
                       clock, balances>>
  IN
  IF i = 0 THEN stop("not_found", expenses)
  ELSE IF newDescription = CancelText THEN stop("cancelled", expenses)
  ELSE IF newAmount = Cancel THEN stop("cancelled", described)
  ELSE IF ~ValidEditAmount(parsedAmount) THEN stop("alert_amount", described)
  ELSE IF newPaidBy = Cancel THEN stop("cancelled", described)
  ELSE IF ~ValidEditPaidBy(newPaidBy) THEN stop("alert_paidby", described)
  ELSE
       /\ expenses' = [expenses EXCEPT
                         ![i] = UpdateExpense(@, newDescription, parsedAmount,
                                              newPaidBy)]
       /\ stored' = saveToLocalStorage(expenses')
       /\ balances' = calculateBalances(expenses')
       /\ last' = Outcome("edit", "updated")
       /\ UNCHANGED <<searchTerm, variant, sheet, linked, isOnline, pending, clock>>

\* editExpense(id), the three prompts answered by newDescription, newAmount
\* and newPaidBy
editExpense(id, newDescription, newAmount, newPaidBy) ==
  LET i == FindIndex(expenses, id)
      parsedAmount == parseFloat(newAmount)
      quiet(res) ==
        /\ last' = Outcome("edit", res)
        /\ UNCHANGED <<searchTerm, variant, expenses, stored, sheet, linked, isOnline,
                       pending, clock, balances>>
  IN
  IF i = 0 THEN quiet("not_found")
  ELSE IF newDescription = CancelText THEN quiet("cancelled")
  ELSE IF newAmount = Cancel THEN quiet("cancelled")
  ELSE IF ~ValidEditAmount(parsedAmount) THEN quiet("alert_amount")
  ELSE IF newPaidBy = Cancel THEN quiet("cancelled")
  ELSE IF ~ValidEditPaidBy(newPaidBy) THEN quiet("alert_paidby")
  ELSE
       /\ expenses' = [expenses EXCEPT
                         ![i] = UpdateExpense(@, newDescription, parsedAmount,
                                              newPaidBy)]
       /\ stored' = saveToLocalStorage(expenses')
       /\ balances' = calculateBalances(expenses')
       /\ last' = Outcome("edit", "updated")
       /\ UNCHANGED <<searchTerm, variant, sheet, linked, isOnline, pending, clock>>

\* --------------------------------------------------------- delete, clear
\* this.expenses.filter(expense => expense.id !== id)
RECURSIVE FilterOutId(_, _)
FilterOutId(exps, id) ==
  IF exps = <<>> THEN <<>>
  ELSE IF Head(exps).id # id THEN <<Head(exps)>> \o FilterOutId(Tail(exps), id)
  ELSE FilterOutId(Tail(exps), id)

\* deleteExpense that removes the record whatever the confirm() dialog answers
deleteExpense_Unconfirmed(id, confirmed) ==
  /\ expenses' = FilterOutId(expenses, id)
  /\ stored' = saveToLocalStorage(expenses')
  /\ balances' = calculateBalances(expenses')
  /\ last' = Outcome("delete", IF confirmed THEN "deleted" ELSE "declined")
  /\ UNCHANGED <<searchTerm, variant, sheet, linked, isOnline, pending, clock>>

\* deleteExpense(id), the confirm() dialog answered by confirmed
deleteExpense(id, confirmed) ==
  IF ~confirmed THEN
       /\ last' = Outcome("delete", "declined")
       /\ UNCHANGED <<searchTerm, variant, expenses, stored, sheet, linked, isOnline,
                      pending, clock, balances>>
  ELSE
       /\ expenses' = FilterOutId(expenses, id)
       /\ stored' = saveToLocalStorage(expenses')
       /\ balances' = calculateBalances(expenses')
       /\ last' = Outcome("delete", "deleted")
       /\ UNCHANGED <<searchTerm, variant, sheet, linked, isOnline, pending, clock>>

\* clearAllExpenses that empties and saves the ledger but does not redraw
clearAllExpenses_NoRedraw(confirmed) ==
  IF ~confirmed THEN
       /\ last' = Outcome("clear", "declined")
       /\ UNCHANGED <<searchTerm, variant, expenses, stored, sheet, linked,
                      isOnline, pending, clock, balances>>
  ELSE
       /\ expenses' = <<>>
       /\ stored' = saveToLocalStorage(expenses')
       /\ last' = Outcome("clear", "cleared")
       /\ UNCHANGED <<searchTerm, variant, sheet, linked, isOnline, pending,
                      clock, balances>>

\* clearAllExpenses, the confirm() dialog answered by confirmed
clearAllExpenses(confirmed) ==
  IF ~confirmed THEN
       /\ last' = Outcome("clear", "declined")
       /\ UNCHANGED <<searchTerm, variant, expenses, stored, sheet, linked, isOnline,
                      pending, clock, balances>>
  ELSE
       /\ expenses' = <<>>
       /\ stored' = saveToLocalStorage(expenses')
       /\ balances' = calculateBalances(expenses')
       /\ last' = Outcome("clear", "cleared")
       /\ UNCHANGED <<searchTerm, variant, sheet, linked, isOnline, pending, clock>>

\* time passes
Tick ==
  /\ clock < MaxClock
  /\ clock' = clock + 1
  /\ UNCHANGED <<searchTerm, variant, expenses, stored, sheet, linked, isOnline, pending,
                 balances, last>>

\* ------------------------------------------------------- the remote sheet
Reverse(seq) == [i \in DOMAIN seq |-> seq[Len(seq) + 1 - i]]

\* the object parseCSVToExpenses pushes for one data line of the CSV export
CSVRowToExpense(row, now) ==
  [id |-> IF row.id = 0 THEN now ELSE row.id,
   description |-> row.description,
   amount |-> OrElse(parseFloat(row.amount), Fin(0)),
   paidBy |-> row.paidBy,
   date |-> row.date,
   splitType |-> IF row.splitType = "" THEN "equal" ELSE row.splitType,
   sharathPercent |-> OrElse(parseInt(row.sharathPercent), Fin(50)).v,
   thejasPercent |-> OrElse(parseInt(row.thejasPercent), Fin(50)).v,
   category |-> IF row.category = "" THEN "other" ELSE row.category,
   timestamp |-> IF row.timestamp = 0 THEN now ELSE row.timestamp]

\* parseCSVToExpenses on the export of the rows (every row of the model has
\* its ten columns, so the columns.length >= 8 test passes)
parseCSVToExpenses(rows, now) ==
  Reverse([i \in DOMAIN rows |-> CSVRowToExpense(rows[i], now)])

\* the object the Apps Script's doGet pushes for one sheet row
ScriptRowToExpense(row) ==
  [id |-> row.id,
   description |-> row.description,
   amount |-> OrElse(parseFloat(row.amount), Fin(0)),
   paidBy |-> row.paidBy,
   date |-> row.date,
   splitType |-> IF row.splitType = "" THEN "equal" ELSE row.splitType,
   sharathPercent |-> OrElse(parseInt(row.sharathPercent), Fin(50)).v,
   thejasPercent |-> OrElse(parseInt(row.thejasPercent), Fin(50)).v,
   category |-> IF row.category = "" THEN "other" ELSE row.category,
   timestamp |-> row.timestamp]

RECURSIVE RowsWithId(_)
RowsWithId(rows) ==
  IF rows = <<>> THEN <<>>
  ELSE IF Head(rows).id # 0 THEN <<Head(rows)>> \o RowsWithId(Tail(rows))
  ELSE RowsWithId(Tail(rows))

\* the expenses of the web app's answer to action=get
doGetExpenses(rows) ==
  LET kept == RowsWithId(rows)
  IN Reverse([i \in DOMAIN kept |-> ScriptRowToExpense(kept[i])])

\* rows a user of the shared sheet types in: each is a valid ledger row
SheetRows ==
  { [id |-> 7, description |-> Str_Rent, amount |-> "100",
     paidBy |-> "sharath", date |-> "2025-10-08", splitType |-> "custom",
     sharathPercent |-> "100", thejasPercent |-> "0", category |-> "rent",
     timestamp |-> 1],
    [id |-> 8, description |-> Str_Tea, amount |-> "10",
     paidBy |-> "thejas", date |-> "2025-10-08", splitType |-> "equal",
     sharathPercent |-> "50", thejasPercent |-> "50", category |-> "other",
     timestamp |-> 1] }

\* somebody adds a row to the shared sheet
SheetAppend ==
  /\ Len(sheet) < MaxSheet
  /\ \E row \in SheetRows : sheet' = Append(sheet, row)
  /\ last' = last
  /\ UNCHANGED <<searchTerm, variant, expenses, stored, linked, isOnline, pending, clock,
                 balances>>

\* ---------------------------------------------------------------- loading
\* the fetch of a loadFromGoogleSheets call started by origin is sent
StartLoad(origin) == pending' = pending \cup {origin}

\* the constructor and loadData up to its first await, in a browser whose
\* navigator.onLine is online
Construct(online) ==
  /\ isOnline' = online
  /\ pending' = IF linked /\ online THEN {"construct"} ELSE {}
  /\ expenses' = IF linked /\ ~online THEN loadFromLocalStorage ELSE <<>>
  /\ balances' = calculateBalances(expenses')
  /\ last' = Outcome("construct", "ready")
  /\ searchTerm' = <<>>
  /\ UNCHANGED <<variant, stored, sheet, linked, clock>>

\* connectToSheet / connectToWebApp with a non-empty input; reachable says
\* whether the test fetch succeeds
Connect(reachable) ==
  /\ Cardinality(pending \cup {"connect"}) <= MaxPending
  /\ IF reachable
     THEN /\ linked' = TRUE
          /\ StartLoad("connect")
     ELSE UNCHANGED <<linked, pending>>
  /\ last' = last
  /\ UNCHANGED <<searchTerm, variant, expenses, stored, sheet, isOnline, clock, balances>>

\* the 'online' event: syncData
Online ==
  /\ Cardinality(pending \cup {"sync"}) <= MaxPending
  /\ isOnline' = TRUE
  /\ IF linked THEN StartLoad("sync") ELSE UNCHANGED pending
  /\ last' = last
  /\ UNCHANGED <<searchTerm, variant, expenses, stored, sheet, linked, clock, balances>>

\* the 'offline' event
Offline ==
  /\ isOnline' = FALSE
  /\ last' = last
  /\ UNCHANGED <<searchTerm, variant, expenses, stored, sheet, linked, pending, clock,
                 balances>>

\* updateDisplay follows the load in syncData and in the connect handlers,
\* not in the constructor (its updateDisplay has run by then)
DisplayAfterLoad(origin, exps) ==
  IF origin = "construct" THEN balances ELSE calculateBalances(exps)

\* the fetch of a load answers with the sheet's content
LoadAnswered(origin) ==
  /\ origin \in pending
  /\ pending' = pending \ {origin}
  /\ expenses' = IF variant = "csv" THEN parseCSVToExpenses(sheet, clock)
                                    ELSE doGetExpenses(sheet)
  /\ stored' = saveToLocalStorage(expenses')
  /\ balances' = DisplayAfterLoad(origin, expenses')
  /\ last' = last
  /\ UNCHANGED <<searchTerm, variant, sheet, linked, isOnline, clock>>

\* the fetch answers with something that is not the sheet (an error page,
\* or the script's success: false)
LoadRefused(origin) ==
  /\ origin \in pending
  /\ pending' = pending \ {origin}
  /\ IF variant = "csv"
     THEN \* the body is parsed as CSV: no line has eight columns
          /\ expenses' = <<>>
          /\ stored' = saveToLocalStorage(expenses')
     ELSE \* data.success is false: nothing is assigned
          /\ UNCHANGED <<expenses, stored>>
  /\ balances' = DisplayAfterLoad(origin, expenses')
  /\ last' = last
  /\ UNCHANGED <<searchTerm, variant, sheet, linked, isOnline, clock>>

\* the fetch (or response.json()) throws: the catch block falls back to
\* loadFromLocalStorage
LoadFailed(origin) ==
  /\ origin \in pending
  /\ pending' = pending \ {origin}
  /\ expenses' = loadFromLocalStorage
  /\ balances' = DisplayAfterLoad(origin, expenses')
  /\ last' = last
  /\ UNCHANGED <<searchTerm, variant, stored, sheet, linked, isOnline, clock>>

LoadOrigins == {"construct", "sync", "connect"}

\* ------------------------------------------------------------- the inputs
Today == "2025-10-08"

\* forms of the everyday kind, and one the code has to refuse
CoreForms ==
  { Form(Str_Rent, "10", "sharath", Today, "equal", "", ""),
    Form(Str_Uber, "100", "thejas", Today, "60-40", "", ""),
    Form(Str_Tea, "10", "thejas", Today, "custom", "70", "20") }

\* the answers to the prompts of editExpense
EditDescriptions == {CancelText, Str_Tea}
EditAmounts == {Cancel, "abc", "0", "-5", "100"}
EditPayers == {Cancel, "thejas", "bob"}

CoreEditDescriptions == {Str_Uber}
CoreEditAmounts == {"0", "100"}
CoreEditPayers == {"thejas", "bob"}

\* the ids a handler can be called with: those on the page, and one that no
\* record has (the empty string)
Ids == {expenses[i].id : i \in DOMAIN expenses} \cup {0}

\* ---------------------------------------------------- the whole program
Init ==
  /\ variant \in {"csv", "webapp"}
  /\ expenses = <<>>
  /\ stored = [has |-> FALSE, val |-> <<>>]
  /\ sheet = <<>>
  /\ linked = FALSE
  /\ isOnline \in BOOLEAN
  /\ pending = {}
  /\ clock = 1
  /\ balances = calculateBalances(<<>>)
  /\ last = Outcome("construct", "ready")
  /\ searchTerm = <<>>

\* the same with nothing linked and the browser online (isOnline is read
\* only when a sheet or a web app is linked)
InitLocal == Init /\ isOnline

AddCore == \E f \in CoreForms : handleAddExpense(f)

EditCore ==
  \E id \in Ids, d \in CoreEditDescriptions, a \in CoreEditAmounts,
     p \in CoreEditPayers : editExpense(id, d, a, p)

Delete == \E id \in Ids, confirmed \in BOOLEAN : deleteExpense(id, confirmed)

Clear == \E confirmed \in BOOLEAN : clearAllExpenses(confirmed)

Reload == \E online \in BOOLEAN : Construct(online)

ConnectSheet == \E reachable \in BOOLEAN : Connect(reachable)

LoadAnswer == \E origin \in LoadOrigins : LoadAnswered(origin)

LoadRefuse == \E origin \in LoadOrigins : LoadRefused(origin)

LoadFail == \E origin \in LoadOrigins : LoadFailed(origin)

Next ==
  \/ Tick
  \/ AddCore
  \/ EditCore
  \/ Delete
  \/ Clear
  \/ Reload
  \/ ConnectSheet
  \/ Online
  \/ Offline
  \/ LoadAnswer
  \/ LoadRefuse
  \/ LoadFail
  \/ SheetAppend

Spec == Init /\ [][Next]_vars

\* ------------------------------------------- the add handler, every input
PercentTexts == {"", "0", "20", "30", "50", "70", "100"}

AmountTexts == {"", "abc", "0", "-5", "10", "Infinity"}

PresetForms ==
  { Form(Str_Rent, "10", p, Today, st, "", "") :
      p \in Parties, st \in Presets \cup {"equal"} }

CustomForms ==
  { Form(Str_Tea, "10", "sharath", Today, "custom", a, b) :
      a \in PercentTexts, b \in PercentTexts }

AllForms ==
  PresetForms \cup CustomForms
  \cup { Form(Str_Rent, a, "sharath", Today, "equal", "", "") : a \in AmountTexts }
  \cup { Form(Str_Rent, "10", p, Today, "equal", "", "") : p \in {"", "bob"} }
  \cup { Form(d, "10", "thejas", Today, "equal", "", "") : d \in {Str_blank, Str_Uber} }
  \cup { Form(Str_Rent, "10", "thejas", "", "equal", "", "") }

AddAny == \E f \in AllForms : handleAddExpense(f)

NextAdd ==
  \/ Tick
  \/ AddAny
  \/ Clear

SpecAdd == InitLocal /\ [][NextAdd]_vars

AddPreset == \E f \in PresetForms : handleAddExpense(f)

NextPreset ==
  \/ Tick
  \/ AddPreset
  \/ Delete
  \/ Clear

SpecPreset == InitLocal /\ [][NextPreset]_vars

\* ------------------------------------- the local commands, every edit input
EditAny ==
  \E id \in Ids, d \in EditDescriptions, a \in EditAmounts, p \in EditPayers :
     editExpense(id, d, a, p)

NextLocal ==
  \/ Tick
  \/ AddCore
  \/ EditAny
  \/ Delete
  \/ Clear

SpecLocal == InitLocal /\ [][NextLocal]_vars

\* ------------------------------------ calculateBalances on valid ledgers
\* the records of a valid ledger: amount > 0, a payer among the two parties,
\* integer percentages in 0..100 that sum to 100
ValidRecords ==
  { [id |-> 1, description |-> Str_Rent, amount |-> a, paidBy |-> p,
     date |-> Today, splitType |-> "custom", sharathPercent |-> s,
     thejasPercent |-> 100 - s, category |-> "rent", timestamp |-> 1] :
      a \in {Fin(10000), Fin(100000)}, p \in Parties, s \in {0, 30, 50, 60, 100} }

RECURSIVE SeqsUpTo(_, _)
SeqsUpTo(S, n) ==
  IF n = 0 THEN {<<>>}
  ELSE LET shorter == SeqsUpTo(S, n - 1)
       IN shorter \cup { <<x>> \o q : x \in S, q \in {r \in shorter : Len(r) = n - 1} }

InitBalances ==
  /\ variant \in {"csv", "webapp"}
  /\ expenses \in SeqsUpTo(ValidRecords, MaxLen)
  /\ stored = saveToLocalStorage(expenses)
  /\ sheet = <<>>
  /\ linked = FALSE
  /\ isOnline = TRUE
  /\ pending = {}
  /\ clock = 1
  /\ balances = calculateBalances(<<>>)
  /\ last = Outcome("construct", "ready")
  /\ searchTerm = <<>>

\* updateDisplay: the balances of the ledger are computed and shown
updateDisplay ==
  /\ balances' = calculateBalances(expenses)
  /\ last' = Outcome("display", "updated")
  /\ UNCHANGED <<searchTerm, variant, expenses, stored, sheet, linked, isOnline, pending,
                 clock>>

NextBalances == updateDisplay

SpecBalances == InitBalances /\ [][NextBalances]_vars

\* ================================================================ claims

\* C1 (SpecBalances): for every valid ledger the two net balances that
\* calculateBalances returns sum to zero.
C1_Conservation ==
  last = Outcome("display", "updated")
    => Plus(balances.sharath, balances.thejas) = Fin(0)

\* C2 (Spec): in every reachable state every record of the ledger has
\* sharathPercent + thejasPercent = 100.
C2_PercentSum ==
  \A i \in DOMAIN expenses :
    expenses[i].sharathPercent + expenses[i].thejasPercent = 100

\* C3 (SpecAdd): in every reachable state every record of the ledger has a
\* finite amount greater than zero.
C3_AmountPositive ==
  \A i \in DOMAIN expenses :
    IsFin(expenses[i].amount) /\ expenses[i].amount.v > 0

\* the two percentages the caller typed into a custom form are numbers
SuppliedPercents(f) ==
  /\ f.splitType = "custom"
  /\ ~isNaN(parseInt(f.sharathPercent))
  /\ ~isNaN(parseInt(f.thejasPercent))

SuppliedSum(f) == parseInt(f.sharathPercent).v + parseInt(f.thejasPercent).v

\* C4 (SpecAdd): an add with splitType custom and percentages that do not
\* sum to 100 is refused, and neither the ledger nor the local store changes.
C4_CustomSumRejected ==
  [][\A f \in CustomForms :
       (SuppliedPercents(f) /\ SuppliedSum(f) # 100 /\ handleAddExpense(f))
         => /\ last'.res = "alert_percent"
            /\ expenses' = expenses
            /\ stored' = stored]_vars

\* C5 (SpecAdd): an add with splitType custom and percentages a, b in 0..100
\* with a + b = 100 (the other fields valid) succeeds and stores a and b.
C5_CustomStored ==
  [][\A f \in CustomForms :
       (SuppliedPercents(f) /\ SuppliedSum(f) = 100 /\ handleAddExpense(f))
         => /\ Len(expenses') = Len(expenses) + 1
            /\ expenses'[1].sharathPercent = parseInt(f.sharathPercent).v
            /\ expenses'[1].thejasPercent = parseInt(f.thejasPercent).v]_vars

\* the two numbers a preset's name spells: the payer's share, the other's
PresetPayerShare(splitType) ==
  CASE splitType = "60-40" -> 60
    [] splitType = "40-60" -> 40
    [] splitType = "70-30" -> 70
    [] splitType = "30-70" -> 30
    [] OTHER -> 50

\* C6 (SpecPreset): a successful add with preset X-Y stores X as the payer's
\* percentage and Y as the other party's; with splitType equal it stores
\* 50 and 50.
C6_PresetPayerRelative ==
  [][\A f \in PresetForms :
       (handleAddExpense(f) /\ last'.res = "added")
         => LET x == PresetPayerShare(f.splitType)
                e == expenses'[1]
            IN /\ Len(expenses') = Len(expenses) + 1
               /\ e.paidBy = f.paidBy /\ e.splitType = f.splitType
               /\ IF f.paidBy = "sharath"
                  THEN e.sharathPercent = x /\ e.thejasPercent = 100 - x
                  ELSE e.thejasPercent = x /\ e.sharathPercent = 100 - x]_vars

\* C6 witness: thejas has added an expense with preset 70-30, and a
\* sharath-paid 40-60 one is in the ledger too
C6_Witness ==
  /\ last = Outcome("add", "added")
  /\ Len(expenses) = 2
  /\ expenses[1].splitType = "70-30" /\ expenses[1].paidBy = "thejas"
  /\ expenses[1].thejasPercent = 70
  /\ expenses[2].splitType = "40-60" /\ expenses[2].paidBy = "sharath"

\* C7 (SpecAdd): no two records of the ledger have the same id.
C7_UniqueIds ==
  \A i, j \in DOMAIN expenses : expenses[i].id = expenses[j].id => i = j

\* C8 (SpecLocal): a successful add puts the new record first and keeps the
\* earlier records behind it in their order, and the ledger is always
\* ordered newest-created first.
C8_NewestFirst ==
  /\ [][\A f \in CoreForms :
          (handleAddExpense(f) /\ last'.res = "added")
            => /\ expenses'[1] = NewExpense(f, clock)
               /\ Tail(expenses') = expenses]_vars
  /\ [](\A i, j \in DOMAIN expenses :
          i < j => expenses[i].timestamp >= expenses[j].timestamp)

\* C8 witness: a record was added after time had passed since the one
\* before it, which has been edited meanwhile
C8_Witness ==
  /\ last = Outcome("add", "added")
  /\ Len(expenses) = 2
  /\ expenses[1].timestamp > expenses[2].timestamp
  /\ expenses[2].description = Str_Tea

\* C9 (SpecAdd): every record's paidBy is one of the two parties.
C9_PaidByParty ==
  \A i \in DOMAIN expenses : expenses[i].paidBy \in Parties

\* a prompt's answer that is a number greater than zero
PositiveNumber(text) ==
  LET x == parseFloat(text) IN x.t \in {"fin", "inf"} /\ x.v > 0

\* C10 (SpecLocal): an edit that fails (no record has the id, the new amount
\* is not a number > 0, or the new payer is not a party) changes no record,
\* not the order of the ledger and not the local store.
C10_FailedEditChangesNothing ==
  [][\/ expenses' = expenses /\ stored' = stored
     \/ \A id \in Ids, d \in EditDescriptions, a \in EditAmounts,
           p \in EditPayers :
          (\/ \A i \in DOMAIN expenses : expenses[i].id # id
           \/ ~PositiveNumber(a)
           \/ p \notin Parties)
            => ~editExpense(id, d, a, p)]_vars

\* C10 witness: an edit of a record of a two-record ledger gave a new
\* description and was then refused for its amount
C10_Witness ==
  /\ last = Outcome("edit", "alert_amount")
  /\ Len(expenses) = 2
  /\ stored = saveToLocalStorage(expenses)


\* record r is record e with nothing but its description, amount, paidBy
\* and category changed
OnlyEditedFields(e, r) ==
  r = [e EXCEPT !.description = r.description, !.amount = r.amount,
                !.paidBy = r.paidBy, !.category = r.category]

\* C11 (SpecLocal): a successful edit of the record with a given id changes
\* only that record's description, amount, paidBy and category: its id, date,
\* splitType, percentages and timestamp, every other record and the order of
\* the ledger stay as they were.
C11_EditChangesOnlyFourFields ==
  [][\A id \in Ids :
       \/ /\ Len(expenses') = Len(expenses)
          /\ \A i \in DOMAIN expenses :
               \/ expenses'[i] = expenses[i]
               \/ /\ expenses[i].id = id
                  /\ OnlyEditedFields(expenses[i], expenses'[i])
                  /\ \A j \in DOMAIN expenses :
                       j # i => expenses'[j] = expenses[j]
       \/ \A d \in EditDescriptions, a \in EditAmounts, p \in EditPayers :
            ~(editExpense(id, d, a, p) /\ last'.res = "updated")]_vars

\* C11 witness: the 60-40 record of a two-record ledger has been edited and
\* still has its split, the rent record behind it is as it was added
C11_Witness ==
  /\ last = Outcome("edit", "updated")
  /\ Len(expenses) = 2
  /\ expenses[1].description = Str_Tea /\ expenses[1].amount = Fin(100000)
  /\ expenses[1].splitType = "60-40" /\ expenses[1].sharathPercent = 40
  /\ expenses[2].category = "rent" /\ expenses[2].amount = Fin(10000)

\* the ledger without its k-th record
RemoveAt(exps, k) == SubSeq(exps, 1, k - 1) \o SubSeq(exps, k + 1, Len(exps))

\* C12 (SpecLocal): a confirmed delete of an id that a record has removes
\* exactly one record, the one with that id: the ledger gets one shorter and
\* the other records keep their fields and their order.
C12_DeleteRemovesExactlyOne ==
  [][\A id \in Ids :
       ((\E i \in DOMAIN expenses : expenses[i].id = id)
          /\ deleteExpense(id, TRUE))
         => /\ Len(expenses') = Len(expenses) - 1
            /\ \E k \in DOMAIN expenses :
                 expenses[k].id = id /\ expenses' = RemoveAt(expenses, k)]_vars

\* C13 (SpecLocal): a delete of an id that no record has is not reported as
\* a deletion, and it leaves the ledger unchanged.
C13_DeleteUnknownNotFound ==
  [][\A id \in Ids :
       ((\A i \in DOMAIN expenses : expenses[i].id # id)
          /\ deleteExpense(id, TRUE))
         => /\ last'.res # "deleted"
            /\ expenses' = expenses]_vars


\* ---------------------------------------------------- settlement message
\* Math.abs(x)
Abs(x) ==
  CASE x.t = "fin" -> Fin(IF x.v < 0 THEN 0 - x.v ELSE x.v)
    [] x.t = "inf" -> Infinity
    [] x.t = "null" -> Fin(0)
    [] OTHER -> NaN

\* x < 0.01 for a balance x (0.01 is 1000 in the unit of the balances);
\* a comparison with NaN is false
LtCent(x) ==
  CASE x.t = "fin" -> x.v < 1000
    [] x.t = "inf" -> x.v < 0
    [] x.t = "null" -> TRUE
    [] OTHER -> FALSE

\* x > 0
GtZero(x) == x.t \in {"fin", "inf"} /\ x.v > 0

\* x.toFixed(2) for a balance x: the number of hundredths nearest to x, the
\* larger one on a tie; "NaN" and "Infinity" for the numbers that have none
toFixed2(x) ==
  CASE x.t = "fin" -> [t |-> "fin",
                       v |-> IF x.v >= 0 THEN (x.v + 500) \div 1000
                             ELSE 0 - ((0 - x.v + 500) \div 1000)]
    [] x.t = "null" -> [t |-> "fin", v |-> 0]
    [] OTHER -> [t |-> x.t, v |-> x.v]

\* the settlement line that updateBalanceDisplay writes: who owes whom, and
\* the amount in hundredths
settlement(bal) ==
  IF LtCent(Abs(bal.sharath))
  THEN [text |-> "All settled up!", owes |-> "nobody", amount |-> Fin(0)]
  ELSE IF GtZero(bal.sharath)
  THEN [text |-> "owes", owes |-> "thejas", amount |-> toFixed2(bal.sharath)]
  ELSE [text |-> "owes", owes |-> "sharath",
        amount |-> toFixed2(Abs(bal.sharath))]

\* C14 (SpecLocal): while the ledger is empty (initially and after a clear)
\* the balances on the page are all zero: both net balances, both paid
\* totals and the total of the expenses; and the settlement line is the
\* settled one.
C14_EmptyLedgerSettled ==
  expenses = <<>>
    => /\ balances.sharath = Fin(0) /\ balances.thejas = Fin(0)
       /\ balances.sharathPaid = Fin(0) /\ balances.thejasPaid = Fin(0)
       /\ balances.totalExpenses = Fin(0)
       /\ settlement(balances).owes = "nobody"

\* C14 witness: a ledger that had records has been cleared and saved
C14_Witness ==
  /\ last = Outcome("clear", "cleared")
  /\ expenses = <<>>
  /\ stored = saveToLocalStorage(<<>>)
  /\ clock > 1

\* the other of the two parties
OtherParty(p) == IF p = "sharath" THEN "thejas" ELSE "sharath"

\* the percentage of party p in record e
PercentOf(e, p) == IF p = "sharath" THEN e.sharathPercent ELSE e.thejasPercent

\* C15 (SpecBalances): the settlement line says settled when
\* |netSharath| < 0.01, else thejas owes sharath netSharath when it is > 0,
\* else sharath owes thejas |netSharath|; and for a ledger of one record of
\* amount m paid by P with payer percentage x the other party owes P
\* m*(100-x)/100.
C15_SettlementMessage ==
  last = Outcome("display", "updated")
    => LET n == balances.sharath.v
           s == settlement(balances)
       IN /\ (-1000 < n /\ n < 1000) => s.owes = "nobody"
          /\ n >= 1000 => s.owes = "thejas" /\ s.amount = toFixed2(Fin(n))
          /\ n <= -1000 => s.owes = "sharath" /\ s.amount = toFixed2(Fin(0 - n))
          /\ Len(expenses) = 1
               => LET e == expenses[1]
                      owed == e.amount.v * (100 - PercentOf(e, e.paidBy))
                  IN IF owed < 1000 THEN s.owes = "nobody"
                     ELSE /\ s.owes = OtherParty(e.paidBy)
                          /\ s.amount = toFixed2(Fin(owed))


\* ------------------------------------------- categories of descriptions
\* descriptions typed into the form
Str_MonthlyRent ==
  <<"M", "o", "n", "t", "h", "l", "y", " ", "R", "e", "n", "t", " ", "p",
    "a", "y", "m", "e", "n", "t">>
Str_UberAirport ==
  <<"U", "b", "e", "r", " ", "t", "o", " ", "a", "i", "r", "p", "o", "r",
    "t">>
Str_Random ==
  <<"r", "a", "n", "d", "o", "m", " ", "s", "t", "u", "f", "f">>
Str_Parent ==
  <<"P", "a", "r", "e", "n", "t", " ", "g", "i", "f", "t">>
Str_PowerRent ==
  <<"P", "O", "W", "E", "R", " ", "f", "o", "r", " ", "r", "e", "n", "t">>
Str_WifiPower ==
  <<"W", "i", "F", "i", " ", "p", "o", "w", "e", "r">>
Str_WaterInternet ==
  <<"w", "a", "t", "e", "r", " ", "i", "n", "t", "e", "r", "n", "e", "t">>
Str_CookWater ==
  <<"C", "o", "o", "k", " ", "w", "a", "t", "e", "r">>
Str_FoodMaid ==
  <<"F", "o", "o", "d", " ", "f", "o", "r", " ", "m", "a", "i", "d">>
Str_AutoMeal ==
  <<"A", "u", "t", "o", " ", "m", "e", "a", "l">>
Str_DoctorUber ==
  <<"D", "o", "c", "t", "o", "r", " ", "u", "b", "e", "r">>
Str_Medicine ==
  <<"M", "e", "d", "i", "c", "i", "n", "e">>

Descriptions ==
  { Str_MonthlyRent, Str_UberAirport, Str_Random, Str_Parent,
    Str_PowerRent, Str_WifiPower, Str_WaterInternet, Str_CookWater,
    Str_FoodMaid, Str_AutoMeal, Str_DoctorUber, Str_Medicine }

DescribedForms ==
  { Form(d, "10", "sharath", Today, "equal", "", "") : d \in Descriptions }

AddDescribed == \E f \in DescribedForms : handleAddExpense(f)

NextCategory ==
  \/ AddDescribed
  \/ Delete
  \/ Clear

SpecCategory == InitLocal /\ [][NextCategory]_vars

\* the keyword groups in their priority order
KeywordGroups ==
  << [category |-> "rent", keywords |-> {<<"r", "e", "n", "t">>}],
     [category |-> "electricity",
      keywords |-> {<<"e", "l", "e", "c", "t", "r", "i", "c">>,
                    <<"p", "o", "w", "e", "r">>}],
     [category |-> "wifi",
      keywords |-> {<<"w", "i", "f", "i">>,
                    <<"i", "n", "t", "e", "r", "n", "e", "t">>}],
     [category |-> "water", keywords |-> {<<"w", "a", "t", "e", "r">>}],
     [category |-> "cook",
      keywords |-> {<<"c", "o", "o", "k">>, <<"m", "a", "i", "d">>}],
     [category |-> "groceries",
      keywords |-> {<<"g", "r", "o", "c", "e", "r">>,
                    <<"f", "o", "o", "d">>, <<"m", "e", "a", "l">>}],
     [category |-> "transport",
      keywords |-> {<<"t", "r", "a", "n", "s", "p", "o", "r", "t">>,
                    <<"u", "b", "e", "r">>, <<"a", "u", "t", "o">>}],
     [category |-> "medical",
      keywords |-> {<<"m", "e", "d", "i", "c", "a", "l">>,
                    <<"d", "o", "c", "t", "o", "r">>,
                    <<"m", "e", "d", "i", "c", "i", "n", "e">>}] >>

\* text has the keyword at some position, letter case aside
OccursIn(kw, text) ==
  \E at \in 1..Len(text) :
    /\ at + Len(kw) - 1 <= Len(text)
    /\ \A k \in 1..Len(kw) : LowerChar(text[at + k - 1]) = kw[k]

\* the places in the priority order of the groups with a keyword in text
GroupsHit(text) ==
  { g \in DOMAIN KeywordGroups :
      \E kw \in KeywordGroups[g].keywords : OccursIn(kw, text) }

\* C16 (SpecCategory): the category of an added record is that of the first
\* keyword group, in the order rent, electricity, wifi, water, cook,
\* groceries, transport, medical, with a keyword in the description (letter
\* case aside), and it is other exactly when no keyword occurs.
C16_CategoryPriority ==
  \A i \in DOMAIN expenses :
    LET hit == GroupsHit(expenses[i].description)
        category == expenses[i].category
    IN /\ category = "other" <=> hit = {}
       /\ hit # {}
            => \E g \in hit : /\ \A h \in hit : g <= h
                               /\ category = KeywordGroups[g].category

\* C16 witness: the ledger holds a description with keywords of two groups,
\* filed under the earlier one, and one without any keyword
C16_Witness ==
  /\ last = Outcome("add", "added")
  /\ Len(expenses) = 2
  /\ expenses[1].description = Str_WaterInternet
  /\ expenses[1].category = "wifi"
  /\ expenses[2].description = Str_Random /\ expenses[2].category = "other"


\* ------------------------------------------------------------- search
\* the characters of the payers and the categories
Chars(text) ==
  CASE text = "sharath" -> <<"s", "h", "a", "r", "a", "t", "h">>
    [] text = "thejas" -> <<"t", "h", "e", "j", "a", "s">>
    [] text = "bob" -> <<"b", "o", "b">>
    [] text = "rent" -> <<"r", "e", "n", "t">>
    [] text = "electricity" ->
         <<"e", "l", "e", "c", "t", "r", "i", "c", "i", "t", "y">>
    [] text = "wifi" -> <<"w", "i", "f", "i">>
    [] text = "water" -> <<"w", "a", "t", "e", "r">>
    [] text = "cook" -> <<"c", "o", "o", "k">>
    [] text = "groceries" -> <<"g", "r", "o", "c", "e", "r", "i", "e", "s">>
    [] text = "transport" -> <<"t", "r", "a", "n", "s", "p", "o", "r", "t">>
    [] text = "medical" -> <<"m", "e", "d", "i", "c", "a", "l">>
    [] text = "other" -> <<"o", "t", "h", "e", "r">>
    [] OTHER -> <<>>

\* getFilteredExpenses for this.expenses = exps and this.searchTerm = term
getFilteredExpenses(exps, term) ==
  LET test(expense) ==
        \/ includes(toLowerCase(expense.description), term)
        \/ includes(toLowerCase(Chars(expense.paidBy)), term)
        \/ includes(toLowerCase(Chars(expense.category)), term)
  IN IF term = <<>> THEN exps ELSE SelectSeq(exps, test)

\* handleSearch that keeps the letter case of what was typed
handleSearch_CaseKept(value) ==
  /\ searchTerm' = value
  /\ UNCHANGED <<variant, expenses, stored, sheet, linked, isOnline, pending,
                 clock, balances, last>>

\* handleSearch(e), value the text of the search box
handleSearch(value) ==
  /\ searchTerm' = toLowerCase(value)
  /\ UNCHANGED <<variant, expenses, stored, sheet, linked, isOnline, pending,
                 clock, balances, last>>

\* what is typed into the search box
SearchValues ==
  { <<>>, Str_Rent, <<"S", "h", "a">>, <<"p", "o", "r", "t">>, <<"z">> }

Search == \E value \in SearchValues : handleSearch(value)

NextSearch ==
  \/ AddCore
  \/ Search
  \/ Delete

SpecSearch == InitLocal /\ [][NextSearch]_vars

\* text has term at some position, the letter case of both aside
OccursCI(term, text) ==
  \E at \in 0..(Len(text) - Len(term)) :
    \A k \in 1..Len(term) : LowerChar(text[at + k]) = LowerChar(term[k])

\* the places in the ledger of the records that have the term in their
\* description, payer or category
Matching(exps, term) ==
  { i \in DOMAIN exps :
      \/ OccursCI(term, exps[i].description)
      \/ OccursCI(term, Chars(exps[i].paidBy))
      \/ OccursCI(term, Chars(exps[i].category)) }

\* the k-th smallest of a set of places
KthOf(places, k) ==
  CHOOSE i \in places : Cardinality({j \in places : j <= i}) = k

\* shown is the records of exps at the matching places, in their order
ExactlyTheMatching(shown, exps, term) ==
  LET places == Matching(exps, term)
  IN /\ Len(shown) = Cardinality(places)
     /\ \A k \in DOMAIN shown : shown[k] = exps[KthOf(places, k)]

\* C17 (SpecSearch): the list shown is, in ledger order, exactly the records
\* whose description, paidBy or category contains the typed term, letter
\* case aside; with the empty term it is the whole ledger; and filtering it
\* again with the same term gives the same list.
C17_FilterBySearchTerm ==
  /\ [][\A value \in SearchValues :
          handleSearch(value)
            => ExactlyTheMatching(getFilteredExpenses(expenses', searchTerm'),
                                  expenses', value)]_vars
  /\ [](LET shown == getFilteredExpenses(expenses, searchTerm)
        IN /\ ExactlyTheMatching(shown, expenses, searchTerm)
           /\ searchTerm = <<>> => shown = expenses
           /\ getFilteredExpenses(shown, searchTerm) = shown)

\* C17 witness: "Sha" was typed and of the two records the second one,
\* paid by sharath, is the only one shown
C17_Witness ==
  /\ searchTerm = <<"s", "h", "a">>
  /\ Len(expenses) = 2
  /\ expenses[1].paidBy = "thejas" /\ expenses[2].paidBy = "sharath"
  /\ getFilteredExpenses(expenses, searchTerm) = <<expenses[2]>>


\* ------------------------------------------------------ summary statistics
\* a calendar date
Ymd(y, m, d) == [y |-> y, m |-> m, d |-> d]

\* the calendar date that the text of a date input spells (YYYY-MM-DD)
DateOfText(text) ==
  CASE text = "2025-10-08" -> Ymd(2025, 10, 8)
    [] text = "2025-10-01" -> Ymd(2025, 10, 1)
    [] text = "2025-10-31" -> Ymd(2025, 10, 31)
    [] text = "2025-11-01" -> Ymd(2025, 11, 1)
    [] text = "2024-10-15" -> Ymd(2024, 10, 15)
    [] OTHER -> Ymd(0, 0, 0)

DaysOfMonth(y, m) ==
  IF m = 2
  THEN IF (y % 4 = 0 /\ y % 100 # 0) \/ y % 400 = 0 THEN 29 ELSE 28
  ELSE IF m \in {4, 6, 9, 11} THEN 30 ELSE 31

\* the day before a calendar date
DayBefore(date) ==
  IF date.d > 1 THEN Ymd(date.y, date.m, date.d - 1)
  ELSE IF date.m > 1
  THEN Ymd(date.y, date.m - 1, DaysOfMonth(date.y, date.m - 1))
  ELSE Ymd(date.y - 1, 12, 31)

\* the offsets from UTC, in minutes, of the time zones a browser may be in
\* (Asia/Kolkata, UTC, America/New_York)
TimeZones == {330, 0, -300}

\* new Date(text) for a date-only text is midnight UTC of that day;
\* getFullYear(), getMonth() and getDate() read it in the browser's zone,
\* where west of UTC it is still the evening of the day before
LocalDateOf(text, zone) ==
  IF zone < 0 THEN DayBefore(DateOfText(text)) ELSE DateOfText(text)

\* new Date() read in the browser's zone: the calendar date on the user's
\* wall at each clock instant
NowLocal(now) ==
  CASE now = 1 -> Ymd(2025, 10, 8)
    [] now = 2 -> Ymd(2025, 10, 31)
    [] OTHER -> Ymd(2025, 11, 1)

\* monthExpenses.reduce((sum, expense) => sum + expense.amount, 0)
RECURSIVE SumAmounts(_)
SumAmounts(exps) ==
  IF exps = <<>> THEN Fin(0)
  ELSE Plus(SumAmounts(SubSeq(exps, 1, Len(exps) - 1)), exps[Len(exps)].amount)

\* updateSummaryStats at clock instant now in a browser in time zone zone:
\* the month total, and the daily average as the quotient num / den
updateSummaryStats(exps, now, zone) ==
  LET current == NowLocal(now)
      inMonth(expense) ==
        LET expenseDate == LocalDateOf(expense.date, zone)
        IN expenseDate.m = current.m /\ expenseDate.y = current.y
      monthTotal == SumAmounts(SelectSeq(exps, inMonth))
      daysInMonth == current.d
  IN [monthTotal |-> monthTotal,
      dailyAvg |-> [num |-> monthTotal, den |-> daysInMonth]]

\* the dates picked in the form
DatesPaid == {"2025-10-01", "2025-10-31", "2025-11-01", "2024-10-15"}

DatedForms ==
  { Form(Str_Rent, a, "sharath", d, "equal", "", "") :
      a \in {"10", "100"}, d \in DatesPaid }

AddDated == \E f \in DatedForms : handleAddExpense(f)

NextMonth ==
  \/ Tick
  \/ AddDated
  \/ Delete

SpecMonth == InitLocal /\ [][NextMonth]_vars

\* the sum of the amounts (in thousandths) of the records at the places
RECURSIVE AmountAt(_, _)
AmountAt(exps, places) ==
  IF places = {} THEN 0
  ELSE LET i == CHOOSE j \in places : TRUE
       IN exps[i].amount.v + AmountAt(exps, places \ {i})

\* C18 (SpecMonth): whatever the browser's time zone, the month total is the
\* sum of the amounts of exactly the records whose stored date has the month
\* and the year of the reference date (first and last day of the month
\* included, the same month of another year excluded), and the daily
\* average is that total divided by the reference date's day of month.
C18_MonthTotal ==
  \A zone \in TimeZones :
    LET ref == NowLocal(clock)
        stats == updateSummaryStats(expenses, clock, zone)
        sameMonth == { i \in DOMAIN expenses :
                        /\ DateOfText(expenses[i].date).m = ref.m
                        /\ DateOfText(expenses[i].date).y = ref.y }
        total == Fin(AmountAt(expenses, sameMonth))
    IN /\ stats.monthTotal = total
       /\ stats.dailyAvg = [num |-> total, den |-> ref.d]


\* ------------------------------------------------------ the CSV text
\* A line of CSV text is a sequence of symbols: the characters of a
\* description, and the text of any other field as one symbol (it holds no
\* quote, comma or blank).

\* String(id) for an id or a timestamp (the empty string is 0)
IdText(n) ==
  CASE n = 1 -> "1" [] n = 2 -> "2" [] n = 3 -> "3" [] n = 4 -> "4"
    [] n = 5 -> "5" [] n = 6 -> "6" [] n = 7 -> "7" [] n = 8 -> "8"
    [] OTHER -> ""

\* the id or timestamp that a column spells
TextId(text) ==
  CASE text = "1" -> 1 [] text = "2" -> 2 [] text = "3" -> 3
    [] text = "4" -> 4 [] text = "5" -> 5 [] text = "6" -> 6
    [] text = "7" -> 7 [] text = "8" -> 8
    [] OTHER -> 0

\* csvRow of showAddToSheetInstructions: the row to paste into the sheet
csvRow(expense) ==
  <<IdText(expense.id), ",", "\"">> \o expense.description
  \o <<"\"", ",", NumToString(expense.amount), ",",
       "\"", expense.paidBy, "\"", ",",
       "\"", expense.date, "\"", ",",
       "\"", expense.splitType, "\"", ",",
       IntToString(expense.sharathPercent), ",",
       IntToString(expense.thejasPercent), ",",
       "\"", expense.category, "\"", ",",
       "\"", IdText(expense.timestamp), "\"">>

\* the loop of parseCSVLine from symbol i on
RECURSIVE parseCSVLineFrom(_, _, _, _, _)
parseCSVLineFrom(line, i, current, inQuotes, result) ==
  IF i > Len(line) THEN Append(result, trim(current))
  ELSE IF line[i] = "\""
  THEN parseCSVLineFrom(line, i + 1, current, ~inQuotes, result)
  ELSE IF line[i] = "," /\ ~inQuotes
  THEN parseCSVLineFrom(line, i + 1, <<>>, inQuotes,
                        Append(result, trim(current)))
  ELSE parseCSVLineFrom(line, i + 1, Append(current, line[i]), inQuotes,
                        result)

\* parseCSVLine: the columns of a line
parseCSVLine(line) == parseCSVLineFrom(line, 1, <<>>, FALSE, <<>>)

\* the text of a column that is not a description
ColumnText(column) ==
  IF column = <<>> THEN ""
  ELSE IF Len(column) = 1 THEN column[1]
  ELSE "abc"

\* columns[k], undefined (read as empty) past the end
Column(columns, k) == IF k <= Len(columns) THEN columns[k] ELSE <<>>

\* the columns of a line as the cells of a sheet row
ColumnsToRow(columns) ==
  [id |-> TextId(ColumnText(Column(columns, 1))),
   description |-> Column(columns, 2),
   amount |-> ColumnText(Column(columns, 3)),
   paidBy |-> ColumnText(Column(columns, 4)),
   date |-> ColumnText(Column(columns, 5)),
   splitType |-> ColumnText(Column(columns, 6)),
   sharathPercent |-> ColumnText(Column(columns, 7)),
   thejasPercent |-> ColumnText(Column(columns, 8)),
   category |-> ColumnText(Column(columns, 9)),
   timestamp |-> TextId(ColumnText(Column(columns, 10)))]

\* the loop of parseCSVToExpenses over the lines after the header
RECURSIVE parseCSVLinesFrom(_, _, _)
parseCSVLinesFrom(lines, i, now) ==
  IF i > Len(lines) THEN <<>>
  ELSE LET line == trim(lines[i])
           columns == parseCSVLine(line)
           rest == parseCSVLinesFrom(lines, i + 1, now)
       IN IF line = <<>> THEN rest
          ELSE IF Len(columns) >= 8
          THEN <<CSVRowToExpense(ColumnsToRow(columns), now)>> \o rest
          ELSE rest

\* parseCSVToExpenses on the lines of a CSV text
parseCSVText(lines, now) == Reverse(parseCSVLinesFrom(lines, 2, now))

\* the header line of the sheet
HeaderLine == <<"ID", ",", "Description", ",", "Amount">>

\* the CSV text of a sheet into which the row of each expense was pasted as
\* it was added: the header, then the rows oldest first
SheetText(exps) ==
  <<HeaderLine>> \o [i \in DOMAIN exps |-> csvRow(exps[Len(exps) + 1 - i])]

\* descriptions with a quote and with a comma in them
Str_Inch == <<"5", "\"", " ", "T", "V">>
Str_Comma == <<"t", "e", "a", ",", " ", "m", "i", "l", "k">>

TextForms ==
  { Form(d, "10", "sharath", Today, "equal", "", "") :
      d \in {Str_Rent, Str_Inch, Str_Comma} }
  \cup { Form(Str_Uber, "100", "thejas", Today, "70-30", "", "") }

AddText == \E f \in TextForms : handleAddExpense(f)

NextRoundTrip ==
  \/ Tick
  \/ AddText
  \/ EditCore
  \/ Delete

SpecRoundTrip == InitLocal /\ [][NextRoundTrip]_vars

\* C19 (SpecRoundTrip): for every ledger reachable by add, edit and delete,
\* what was saved to local storage loads back as the same ledger, and the
\* CSV rows written for the sheet parse back, with parseCSVToExpenses, to
\* the same records with the same fields in the same newest-first order.
C19_RoundTrip ==
  /\ stored.has => loadFromLocalStorage = expenses
  /\ parseCSVText(SheetText(expenses), clock) = expenses


\* the ledger with every payer swapped for the other party and every
\* percentage p replaced by 100 - p
Mirror(exps) ==
  [i \in DOMAIN exps |->
     [exps[i] EXCEPT !.paidBy = OtherParty(@),
                     !.sharathPercent = 100 - @,
                     !.thejasPercent = 100 - @]]

\* C20 (SpecBalances): for every valid ledger, the sharath net balance of
\* the ledger with payers swapped and percentages complemented is the
\* negation of the sharath net balance of the ledger.
C20_SettlementSymmetry ==
  last = Outcome("display", "updated")
    => calculateBalances(Mirror(expenses)).sharath
         = Minus(Fin(0), balances.sharath)


\* the share of party who in record e that calculateBalances uses
ShareUsed(e, who) ==
  IF who = "sharath" THEN calculateBalances(<<e>>).sharathTotal
                     ELSE calculateBalances(<<e>>).thejasTotal

\* the percentage of party who that the split chosen in the form gives
ChosenPercent(e, who) ==
  IF e.splitType = "equal" THEN 50
  ELSE IF who = e.paidBy THEN PresetPayerShare(e.splitType)
  ELSE 100 - PresetPayerShare(e.splitType)

ValidForm(f) ==
  /\ trim(f.description) # <<>>
  /\ PositiveNumber(f.amount)
  /\ f.paidBy \in Parties
  /\ f.datePaid # ""
  /\ f.splitType = "custom" => SuppliedPercents(f) /\ SuppliedSum(f) = 100

\* the add handler with a sheet or web app that is linked, goes offline and
\* online, and whose loads answer, are refused or fail
NextRemote ==
  \/ AddCore
  \/ ConnectSheet
  \/ Online
  \/ Offline
  \/ LoadAnswer
  \/ LoadRefuse
  \/ LoadFail

SpecRemote == Init /\ [][NextRemote]_vars

C23_FailedLoadFallsBack ==
  [][\A origin \in LoadOrigins :
       (LoadRefused(origin) \/ LoadFailed(origin))
         => /\ expenses' = loadFromLocalStorage
            /\ loadFromLocalStorage' = loadFromLocalStorage]_vars


\* ----------------------------------------- edits that retype every field
EditableForms ==
  { Form(Str_Rent, "10", p, Today, st, "", "") :
      p \in Parties, st \in {"equal", "60-40"} }

\* answers to the description prompt: cleared, a blank, a new text
RetypedDescriptions == {<<>>, Str_blank, Str_Uber}

AddEditable == \E f \in EditableForms : handleAddExpense(f)

EditRetyped ==
  \E id \in Ids, d \in RetypedDescriptions, p \in Parties :
     editExpense(id, d, "100", p)

NextEdit ==
  \/ AddEditable
  \/ EditRetyped
  \/ Delete
  \/ Clear

SpecEdit == InitLocal /\ [][NextEdit]_vars

\* C24 (SpecEdit): every record whose splitType is a preset X-Y stores X as
\* the percentage of its current payer and Y as that of the other party,
\* also after an edit that changed the payer.
C24_PresetFollowsPayer ==
  \A i \in DOMAIN expenses :
    expenses[i].splitType \in Presets
      => /\ PercentOf(expenses[i], expenses[i].paidBy)
             = PresetPayerShare(expenses[i].splitType)
         /\ PercentOf(expenses[i], OtherParty(expenses[i].paidBy))
             = 100 - PresetPayerShare(expenses[i].splitType)

\* C25 (SpecEdit): every record's description is non-empty after trimming:
\* an add and an edit with an empty or blank description are refused and
\* leave the ledger unchanged.
C25_DescriptionNonEmpty ==
  /\ [](\A i \in DOMAIN expenses : trim(expenses[i].description) # <<>>)
  /\ [][\A id \in Ids, d \in RetypedDescriptions, p \in Parties :
          (trim(d) = <<>> /\ editExpense(id, d, "100", p))
            => expenses' = expenses]_vars

\* C26 (SpecEdit): every record's category is getCategoryFromDescription of
\* the record's current description.
C26_CategoryOfDescription ==
  \A i \in DOMAIN expenses :
    expenses[i].category = getCategoryFromDescription(expenses[i].description)

\* C26 witness: a rent record has been edited to " Uber" and is filed under
\* transport, the record behind it is still filed under rent
C26_Witness ==
  /\ last = Outcome("edit", "updated")
  /\ Len(expenses) = 2
  /\ expenses[1].description = <<"U", "b", "e", "r">>
  /\ expenses[1].category = "transport"
  /\ expenses[2].description = Str_Rent /\ expenses[2].category = "rent"


\* ---------------------------------------------------------------------
\* The derived views and the ledger
\* ---------------------------------------------------------------------

\* exportData: the ledger and its balances are written to a download; the
\* program's own state keeps only the notification
exportData ==
  /\ last' = Outcome("export", "exported")
  /\ UNCHANGED <<searchTerm, variant, expenses, stored, sheet, linked, isOnline,
                 pending, clock, balances>>

NextViews ==
  \/ AddCore
  \/ Delete
  \/ Clear
  \/ Search
  \/ updateDisplay
  \/ exportData

SpecViews == InitLocal /\ [][NextViews]_vars

\* C27: a step of a derived view (the redraw with calculateBalances and
\* updateSummaryStats, the search with getFilteredExpenses, exportData) and a
\* delete or clear whose confirmation is declined leave the ledger (records,
\* field values, order) and the locally persisted store as they were.
C27_ViewsKeepLedger ==
  [][(\/ updateDisplay
      \/ exportData
      \/ Search
      \/ \E id \in Ids : deleteExpense(id, FALSE)
      \/ clearAllExpenses(FALSE))
       => /\ expenses' = expenses
          /\ stored' = stored]_vars

C27_Witness ==
  /\ last = Outcome("export", "exported")
  /\ Len(expenses) = 2
  /\ searchTerm # <<>>
  /\ getFilteredExpenses(expenses, searchTerm) # expenses
  /\ stored.has
  /\ stored.val = JSONroundtrip(expenses)


\* ---------------------------------------------------------------------
\* Local commands interleaved with remote loads
\* ---------------------------------------------------------------------

\* add and delete against a sheet or web app whose loads are in flight.
\* Everything starts empty and nobody else writes the sheet, so every record
\* of the ledger, of the local store and of the sheet was placed by add; clear
\* is left out, so a record that is in the sheet and not in the ledger was
\* removed by delete.
NextInterleave ==
  \/ AddCore
  \/ Delete
  \/ ConnectSheet
  \/ Online
  \/ Offline
  \/ LoadAnswer
  \/ LoadRefuse
  \/ LoadFail

SpecInterleave == Init /\ [][NextInterleave]_vars

IdsOf(exps) == {exps[i].id : i \in DOMAIN exps}

\* a load started by the constructor, by syncData or by connect resolves
LoadResolves ==
  \E origin \in LoadOrigins :
    LoadAnswered(origin) \/ LoadRefused(origin) \/ LoadFailed(origin)

\* C28: in every step that is not a confirmed delete or clear, each record of
\* the ledger stays in the ledger and in local storage, and a load that
\* resolves brings no record into the ledger that was not in it (a deleted
\* record does not come back).
C28_RecordsOutliveLoads ==
  [][\/ \E id \in Ids : deleteExpense(id, TRUE)
     \/ clearAllExpenses(TRUE)
     \/ /\ IdsOf(expenses) \subseteq IdsOf(expenses')
        /\ IdsOf(expenses) \subseteq IdsOf(loadFromLocalStorage')
        /\ LoadResolves => IdsOf(expenses') \subseteq IdsOf(expenses)]_vars


\* ---------------------------------------------------------------------
\* Restarting with nothing linked
\* ---------------------------------------------------------------------

\* the page is used, closed and opened again; no sheet or web app is ever
\* linked (the setup card is skipped)
NextRestart ==
  \/ AddCore
  \/ Delete
  \/ Tick
  \/ Reload

SpecRestart == InitLocal /\ [][NextRestart]_vars

RecordsOf(exps) == {exps[i] : i \in DOMAIN exps}

\* C29: with no sheet or web app linked, an add keeps in local storage every
\* record that was there before it, also when the page was opened again
\* since those records were stored.
C29_StoredSurvivesRestart ==
  [][\A f \in CoreForms :
       (~linked /\ handleAddExpense(f))
         => RecordsOf(loadFromLocalStorage) \subseteq RecordsOf(loadFromLocalStorage')]_vars


\* ---------------------------------------------------------------------
\* Syncing after a failed remote save
\* ---------------------------------------------------------------------

\* SpecRemote where a fetch that is in flight resolves in the end (its
\* promise settles: the answer, a refusal or a network error).  The user
\* and the network are under no obligation.
SpecSync == Init /\ [][NextRemote]_vars /\ WF_vars(LoadResolves)

\* the rows of the sheet hold the row saveToGoogleSheets posts for expense
SavedRemotely(expense) ==
  \E k \in DOMAIN sheet : sheet[k] = ExpenseToRow(expense)

\* the last command was an add whose remote save failed: its record heads
\* the ledger and is not in the sheet, the sheet has room for its row, and
\* the 'offline' event has cleared isOnline (the connection is down)
FailedSaveOffline(expense) ==
  /\ last = Outcome("add", "added_sync_failed")
  /\ expenses # <<>>
  /\ expenses[1] = expense
  /\ ~SavedRemotely(expense)
  /\ Len(sheet) < MaxSheet
  /\ ~isOnline

\* C30: an expense added with a failed remote save is, once the connection
\* is restored (the 'online' event sets isOnline and runs syncData),
\* eventually saved to the remote sheet: from such an add either the app
\* stays offline for ever or the expense's row reaches the sheet (or the
\* sheet of the model has been filled by later adds).
C30_FailedSaveEventuallySynced ==
  \A f \in CoreForms, now \in 1..MaxClock :
    [](FailedSaveOffline(NewExpense(f, now))
         => \/ [](~isOnline)
            \/ <>(SavedRemotely(NewExpense(f, now)) \/ Len(sheet) = MaxSheet))

====
